---- MODULE Spec2Model ----
(***************************************************************************)
(* Payroll tracker: the database of the migration (tables, constraints,   *)
(* row-level security policies, triggers) and the page handlers that call *)
(* it (Wages, Attendance, Employees).                                      *)
(*                                                                         *)
(* Units.  A DECIMAL(n,2) column is an integer count of hundredths (cents,*)
(* hundredths of an hour).  A JavaScript number is an integer count of    *)
(* ten-thousandths, so that the product of two two-decimal values is      *)
(* exact.  In calculateWage, whose results are rounded into DECIMAL       *)
(* columns, binary floating-point error (below 1e-9 on these magnitudes)  *)
(* is not represented: its arithmetic is taken as exact decimal           *)
(* arithmetic.  The sums of the Reports page are kept as doubles and      *)
(* carry their error: see Add64.                                          *)
(***************************************************************************)
EXTENDS Integers, Sequences, FiniteSets, TLC

\* ------------------------------------------------------------------ bounds
MaxEmployees == 2
MaxDate == 1
MaxWages == 1
MaxClock == 2
CalcMaxDate == 3
PayMaxWages == 2
OfficeMaxWages == 2
MaxStatsRows == 3

\* ------------------------------------------------------------ value spaces
NoUser == "null"
NoTime == 0
NoEmployee == 0

Users == {"alice", "bob"}
Sessions == {"s1", "s2"}
Dates == 1..MaxDate
CalcDates == 1..CalcMaxDate

\* The rates an admin types into the employee form (cents).
RateInputs ==
  { [daily_wage |-> 50000, overtime_rate |-> 5000, half_day_rate |-> 25000],
    [daily_wage |-> 100, overtime_rate |-> 3, half_day_rate |-> 50] }

\* What an admin types into the attendance form: status, overtime hours
\* (hundredths of an hour, step 0.5, min 0), advance taken (cents, min 0).
AttendanceInputs ==
  { [status |-> "present", overtime_hours |-> 0, advance_taken |-> 0],
    [status |-> "absent", overtime_hours |-> 50, advance_taken |-> 100] }

CalcAttendanceInputs ==
  AttendanceInputs \cup
  { [status |-> "half_day", overtime_hours |-> 200, advance_taken |-> 0],
    [status |-> "absent", overtime_hours |-> 0, advance_taken |-> 10000] }

CalculationTypeInputs == {"weekly"}

VARIABLES
  user_roles,     \* table user_roles: set of [user_id, role]
  employees,      \* table employees: id -> row
  employee_seq,   \* number of employee ids handed out (ids are never reused)
  attendance,     \* table attendance: set of rows
  wages,          \* table wages: id -> row
  wage_seq,       \* number of wage ids handed out
  now,            \* the clock
  session_user,   \* session -> signed-in user (auth.uid())
  page,           \* session -> mounted page
  pageEmployees,  \* session -> the page's `employees` state: id -> row as loaded
  pageWages,      \* session -> the Wages page's `wages` state: id -> row as loaded
  calculating,    \* session -> the Wages page's `calculating` flag
  calc,           \* session -> position and locals of a running calculateWage
  toast,          \* the toast shown last: [session, message]
  api,            \* the answer to the last direct request on user_roles
  stats,          \* session -> the Reports page's `stats` state
  layout          \* session -> the Layout component: its state and pending calls

db == <<user_roles, employees, employee_seq, attendance, wages, wage_seq>>
ui == <<page, pageEmployees, pageWages, calculating, calc, toast>>
vars == <<user_roles, employees, employee_seq, attendance, wages, wage_seq, now,
          session_user, page, pageEmployees, pageWages, calculating, calc, toast,
          api, stats, layout>>

Empty == << >>
Restrict(f, S) == [x \in S |-> f[x]]
Idle == [pc |-> "idle"]
\* No Layout on screen (the /auth route): nothing of it is live.  A mounted
\* Layout starts from useState(null), useState(false), with getSession() pending.
Unmounted ==
  [mounted |-> FALSE, getSession |-> FALSE, user |-> NoUser, isAdmin |-> FALSE,
   checks |-> {}]
NoRequest == [session |-> "s1", user |-> NoUser, code |-> ""]

\* A JavaScript number of the Reports page: `v` is the decimal value it stands
\* for, in hundredths, and `err` is how many units in the last place the
\* IEEE-754 double lies above the double nearest to that decimal value.
Zero == [v |-> 0, err |-> 0]
\* useState({totalPaid: 0, totalPending: 0, employeesPaid: 0, averageWage: 0});
\* a quotient is kept as the pair it is the quotient of, 0 being 0 / 1.
NoStats ==
  [totalPaid |-> Zero, totalPending |-> Zero, employeesPaid |-> 0,
   averageWage |-> [num |-> Zero, den |-> 1]]

\* ------------------------------------------------------- numbers and money
\* A DECIMAL(n,2) value as the JavaScript number PostgREST returns.
Num(hundredths) == hundredths * 100

\* a * b for two JavaScript numbers that carry at most two decimals each.
Mul(a, b) == (a \div 100) * (b \div 100)

\* Assignment of a JavaScript number to a DECIMAL(10,2) column: PostgreSQL
\* numeric rounding to two decimals, ties away from zero.
RoundDecimal2(x) ==
  IF x >= 0 THEN (x + 50) \div 100 ELSE 0 - ((50 - x) \div 100)

\* ------------------------------------------------------- row-level security
has_role(_user_id, _role) ==
  \E r \in user_roles : r.user_id = _user_id /\ r.role = _role

\* SQL equality: NULL equals nothing.
SqlEq(a, b) == a # NoUser /\ b # NoUser /\ a = b

\* user_roles has row-level security enabled and two policies, both FOR SELECT:
\* "Users can view their own roles" and "Admins can view all roles".
UserRolesSelectPolicy(uid, row) ==
  SqlEq(uid, row.user_id) \/ has_role(uid, "admin")

\* An INSERT policy that lets a user add rows about itself.
UserRolesInsertPolicySelf(uid, row) == SqlEq(uid, row.user_id)

\* No policy exists for INSERT, UPDATE or DELETE: with row-level security
\* enabled the default is to deny.
UserRolesInsertPolicy(uid, row) == FALSE
UserRolesUpdatePolicy(uid, row) == FALSE
UserRolesDeletePolicy(uid, row) == FALSE

SelectUserRoles(uid) == {r \in user_roles : UserRolesSelectPolicy(uid, r)}

\* The rows a client can send: user_id of a user, role of the app_role enum.
RoleInputs == [user_id : Users, role : {"admin", "employee"}]

EmployeeRows == {[id |-> i] @@ employees[i] : i \in DOMAIN employees}

\* A SELECT policy on employees that lets every caller through.
EmployeesSelectPolicyOpen(uid, row) == TRUE

EmployeesSelectPolicy(uid, row) ==
  has_role(uid, "admin") \/ SqlEq(uid, row.user_id)
EmployeesInsertPolicy(uid, row) == has_role(uid, "admin")
EmployeesUpdatePolicy(uid, row) == has_role(uid, "admin")
EmployeesDeletePolicy(uid, row) == has_role(uid, "admin")

\* The EXISTS subquery of the employee policies on attendance and wages; it
\* reads employees under the caller's own SELECT policy.
OwnsEmployee(uid, employee_id) ==
  \E e \in EmployeeRows :
    /\ EmployeesSelectPolicy(uid, e)
    /\ e.id = employee_id
    /\ SqlEq(e.user_id, uid)

AttendanceSelectPolicy(uid, row) ==
  has_role(uid, "admin") \/ OwnsEmployee(uid, row.employee_id)
AttendanceInsertPolicy(uid, row) == has_role(uid, "admin")
AttendanceUpdatePolicy(uid, row) == has_role(uid, "admin")
AttendanceDeletePolicy(uid, row) == has_role(uid, "admin")

WagesSelectPolicy(uid, row) ==
  has_role(uid, "admin") \/ OwnsEmployee(uid, row.employee_id)
WagesInsertPolicy(uid, row) == has_role(uid, "admin")
\* An UPDATE policy on wages that also lets the employee's own user through.
WagesUpdatePolicyOwner(uid, row) ==
  has_role(uid, "admin") \/ OwnsEmployee(uid, row.employee_id)
\* A DELETE policy on wages that asks for the admin to own the employee too.
WagesDeletePolicyOwned(uid, row) ==
  has_role(uid, "admin") /\ OwnsEmployee(uid, row.employee_id)

WagesUpdatePolicy(uid, row) == has_role(uid, "admin")
WagesDeletePolicy(uid, row) == has_role(uid, "admin")

\* ------------------------------------------------------------------ queries
WageRows == {[id |-> i] @@ wages[i] : i \in DOMAIN wages}

\* from("employees").select(...) as `uid`.
SelectEmployees(uid) == {e \in EmployeeRows : EmployeesSelectPolicy(uid, e)}
\* from("attendance").select(...) as `uid`.
SelectAttendance(uid) == {a \in attendance : AttendanceSelectPolicy(uid, a)}
\* from("wages").select(...) as `uid`.
SelectWages(uid) == {w \in WageRows : WagesSelectPolicy(uid, w)}

\* A set of rows with distinct ids as the map id -> row a page keeps.
ById(rows) ==
  [i \in {r.id : r \in rows} |-> CHOOSE r \in rows : r.id = i]

\* Wages.loadEmployees / Attendance.loadEmployees: the active employees the
\* caller may read.  (Attendance selects "id, full_name" only.)
loadActiveEmployees(uid) ==
  ById({e \in SelectEmployees(uid) : e.status = "active"})
AttendanceLoadEmployees(uid) ==
  ById({[id |-> e.id] : e \in {x \in SelectEmployees(uid) : x.status = "active"}})
\* Employees.loadEmployees: every employee the caller may read.
EmployeesLoadEmployees(uid) == ById(SelectEmployees(uid))
\* Wages.loadWages
loadWages(uid) == ById(SelectWages(uid))

\* ------------------------------------------------------------------- start
Init ==
  /\ user_roles = { [user_id |-> "alice", role |-> "admin"],
                    [user_id |-> "bob", role |-> "employee"] }
  /\ \E owner \in {NoUser, "bob"}, r \in RateInputs :
       employees = (1 :> ([user_id |-> owner, status |-> "active"] @@ r))
  /\ employee_seq = 1
  /\ attendance = {}
  /\ wages = Empty
  /\ wage_seq = 0
  /\ now = 1
  /\ session_user = [s \in Sessions |-> NoUser]
  /\ page = [s \in Sessions |-> "none"]
  /\ pageEmployees = [s \in Sessions |-> Empty]
  /\ pageWages = [s \in Sessions |-> Empty]
  /\ calculating = [s \in Sessions |-> FALSE]
  /\ calc = [s \in Sessions |-> Idle]
  /\ toast = [session |-> "s1", message |-> ""]
  /\ api = NoRequest
  /\ stats = [s \in Sessions |-> NoStats]
  /\ layout = [s \in Sessions |-> Unmounted]

\* ----------------------------------------------------------------- actions
\* Time passes.
Tick ==
  /\ now < MaxClock
  /\ now' = now + 1
  /\ UNCHANGED <<db, api, stats, layout, session_user, ui>>

\* Route change: the page component mounts with fresh state and its useEffect
\* loads run.
Navigate(s, pg) ==
  /\ session_user[s] # NoUser
  /\ calc[s].pc = "idle"
  /\ page' = [page EXCEPT ![s] = pg]
  /\ pageEmployees' = [pageEmployees EXCEPT ![s] =
       CASE pg = "wages" -> loadActiveEmployees(session_user[s])
         [] pg = "attendance" -> AttendanceLoadEmployees(session_user[s])
         [] OTHER -> EmployeesLoadEmployees(session_user[s])]
  /\ pageWages' = [pageWages EXCEPT ![s] =
       IF pg = "wages" THEN loadWages(session_user[s]) ELSE Empty]
  /\ calculating' = [calculating EXCEPT ![s] = FALSE]
  /\ UNCHANGED <<db, api, stats, layout, now, session_user, calc, toast>>

\* ---------------------------------------------------------- database writes
\* Each write answers with a PostgreSQL error code, "" when it went through.
\* "network" stands for a transient failure of the call itself.

\* The insert into a table without UNIQUE (employee_id, date).
InsertAttendanceErrorNoUnique(uid, row) ==
  CASE row.employee_id = NoEmployee -> "22P02"
    [] ~AttendanceInsertPolicy(uid, row) -> "42501"
    [] row.employee_id \notin DOMAIN employees -> "23503"
    [] OTHER -> ""

\* from("attendance").insert([row]) as `uid`: uuid syntax, then the insert
\* policy, then UNIQUE (employee_id, date), then the foreign key.
InsertAttendanceError(uid, row) ==
  CASE row.employee_id = NoEmployee -> "22P02"
    [] ~AttendanceInsertPolicy(uid, row) -> "42501"
    [] \E a \in attendance :
         a.employee_id = row.employee_id /\ a.date = row.date -> "23505"
    [] row.employee_id \notin DOMAIN employees -> "23503"
    [] OTHER -> ""

\* from("employees").insert([row]) as `uid`.
InsertEmployeesError(uid, row) ==
  IF EmployeesInsertPolicy(uid, row) THEN "" ELSE "42501"

\* The row the employees table stores for an insert that gives the rates only:
\* user_id stays NULL and status takes its default.
NewEmployeeRow(employeeData) ==
  [user_id |-> NoUser, status |-> "active"] @@ employeeData

\* from("employees").update(employeeData).eq("id", id) as `uid`: the rows the
\* update policy lets through are rewritten; a row it hides is skipped silently.
UpdateEmployees(uid, id, employeeData) ==
  [i \in DOMAIN employees |->
     IF i = id /\ EmployeesUpdatePolicy(uid, [id |-> i] @@ employees[i])
       THEN employeeData @@ employees[i]
       ELSE employees[i]]

\* from("employees").delete().eq("id", id) as `uid`: the ids that go.
DeletedEmployees(uid, id) ==
  {i \in DOMAIN employees :
     i = id /\ EmployeesDeletePolicy(uid, [id |-> i] @@ employees[i])}

\* A wages table whose employee_id is a plain UUID column, with no REFERENCES
\* employees(id): a row for an employee that is gone is accepted.
InsertWagesErrorNoForeignKey(uid, row) ==
  CASE ~WagesInsertPolicy(uid, row) -> "42501"
    [] OTHER -> ""

\* A wages table with an exclusion constraint on (employee_id, period): a row
\* whose period overlaps a stored row of the same employee is refused.
InsertWagesErrorUniquePeriod(uid, row) ==
  CASE ~WagesInsertPolicy(uid, row) -> "42501"
    [] row.employee_id \notin DOMAIN employees -> "23503"
    [] \E i \in DOMAIN wages :
         /\ wages[i].employee_id = row.employee_id
         /\ wages[i].period_start <= row.period_end
         /\ row.period_start <= wages[i].period_end -> "23505"
    [] OTHER -> ""

\* from("wages").insert([row]) as `uid`: the insert policy, then the foreign key.
InsertWagesError(uid, row) ==
  CASE ~WagesInsertPolicy(uid, row) -> "42501"
    [] row.employee_id \notin DOMAIN employees -> "23503"
    [] OTHER -> ""

\* A wages table that floors the total at zero (total_wage stored as
\* GREATEST(total_wage, 0)).
NewWageRowClamped(row, t) ==
  [ employee_id |-> row.employee_id,
    period_start |-> row.period_start,
    period_end |-> row.period_end,
    calculation_type |-> row.calculation_type,
    base_wage |-> RoundDecimal2(row.base_wage),
    overtime_amount |-> RoundDecimal2(row.overtime_amount),
    advance_deductions |-> RoundDecimal2(row.advance_deductions),
    total_wage |-> IF row.total_wage < 0 THEN 0 ELSE RoundDecimal2(row.total_wage),
    paid |-> FALSE,
    paid_at |-> NoTime,
    created_at |-> t,
    updated_at |-> t ]

\* The row the wages table stores: each amount is rounded into its
\* DECIMAL(10,2) column, paid and paid_at take their defaults, created_at and
\* updated_at are now().
NewWageRow(row, t) ==
  [ employee_id |-> row.employee_id,
    period_start |-> row.period_start,
    period_end |-> row.period_end,
    calculation_type |-> row.calculation_type,
    base_wage |-> RoundDecimal2(row.base_wage),
    overtime_amount |-> RoundDecimal2(row.overtime_amount),
    advance_deductions |-> RoundDecimal2(row.advance_deductions),
    total_wage |-> RoundDecimal2(row.total_wage),
    paid |-> FALSE,
    paid_at |-> NoTime,
    created_at |-> t,
    updated_at |-> t ]

\* BEFORE UPDATE trigger update_wages_updated_at.
update_updated_at_column(new, t) == [new EXCEPT !.updated_at = t]

\* The update without paid_at: .update({paid: true}).
UpdateWagesPaidFlagOnly(uid, id, paid_at, t) ==
  [i \in DOMAIN wages |->
     IF i = id /\ WagesUpdatePolicy(uid, [id |-> i] @@ wages[i])
       THEN update_updated_at_column([wages[i] EXCEPT !.paid = TRUE], t)
       ELSE wages[i]]

\* The update without .eq("id", id): every row the policy lets through.
UpdateWagesPaidEveryRow(uid, id, paid_at, t) ==
  [i \in DOMAIN wages |->
     IF WagesUpdatePolicy(uid, [id |-> i] @@ wages[i])
       THEN update_updated_at_column(
              [wages[i] EXCEPT !.paid = TRUE, !.paid_at = paid_at], t)
       ELSE wages[i]]

\* from("wages").update({paid: true, paid_at: <client time>}).eq("id", id) as
\* `uid`: the rows the update policy lets through are rewritten, and the trigger
\* stamps them; a row the policy hides is skipped silently.
UpdateWagesPaid(uid, id, paid_at, t) ==
  [i \in DOMAIN wages |->
     IF i = id /\ WagesUpdatePolicy(uid, [id |-> i] @@ wages[i])
       THEN update_updated_at_column(
              [wages[i] EXCEPT !.paid = TRUE, !.paid_at = paid_at], t)
       ELSE wages[i]]

\* -------------------------------------------------------- Attendance page
AttendanceToast(code) ==
  CASE code = "" -> "Attendance marked successfully"
    [] code = "23505" -> "Attendance already marked for this employee on this date"
    [] OTHER -> "Error marking attendance"

\* A submit sent as an upsert on (employee_id, date): a record already there
\* is replaced by the new one.
AttendanceHandleSubmitUpsert(s, employee_id, date, input, fails) ==
  /\ page[s] = "attendance"
  /\ employee_id \in DOMAIN pageEmployees[s] \cup {NoEmployee}
  /\ LET attendanceData == [employee_id |-> employee_id, date |-> date] @@ input
         code == IF fails THEN "network"
                 ELSE InsertAttendanceErrorNoUnique(session_user[s], attendanceData)
     IN /\ attendance' =
             IF code = ""
             THEN {a \in attendance : ~(a.employee_id = employee_id /\ a.date = date)}
                  \cup {attendanceData}
             ELSE attendance
        /\ toast' = [session |-> s, message |-> AttendanceToast(code)]
  /\ UNCHANGED <<user_roles, api, stats, layout, employees, employee_seq, wages, wage_seq, now,
                 session_user, page, pageEmployees, pageWages, calculating, calc>>

\* A submit that also books the new record's advance against the wage rows
\* already calculated over its date.
AttendanceHandleSubmitRecalculates(s, employee_id, date, input, fails) ==
  /\ page[s] = "attendance"
  /\ employee_id \in DOMAIN pageEmployees[s] \cup {NoEmployee}
  /\ LET attendanceData == [employee_id |-> employee_id, date |-> date] @@ input
         code == IF fails THEN "network"
                 ELSE InsertAttendanceError(session_user[s], attendanceData)
     IN /\ attendance' = IF code = "" THEN attendance \cup {attendanceData}
                         ELSE attendance
        /\ wages' =
             [i \in DOMAIN wages |->
                IF /\ code = ""
                   /\ wages[i].employee_id = employee_id
                   /\ wages[i].period_start <= date
                   /\ date <= wages[i].period_end
                THEN [wages[i] EXCEPT
                        !.advance_deductions = @ + input.advance_taken,
                        !.total_wage = @ - input.advance_taken]
                ELSE wages[i]]
        /\ toast' = [session |-> s, message |-> AttendanceToast(code)]
  /\ UNCHANGED <<user_roles, api, stats, layout, employees, employee_seq, wage_seq, now,
                 session_user, page, pageEmployees, pageWages, calculating, calc>>

\* Attendance.handleSubmit with the form's employee (one of the loaded options,
\* or nothing selected), date, status, overtime hours and advance.
AttendanceHandleSubmit(s, employee_id, date, input, fails) ==
  /\ page[s] = "attendance"
  /\ employee_id \in DOMAIN pageEmployees[s] \cup {NoEmployee}
  /\ LET attendanceData == [employee_id |-> employee_id, date |-> date] @@ input
         code == IF fails THEN "network"
                 ELSE InsertAttendanceError(session_user[s], attendanceData)
     IN /\ attendance' = IF code = "" THEN attendance \cup {attendanceData}
                         ELSE attendance
        /\ toast' = [session |-> s, message |-> AttendanceToast(code)]
  /\ UNCHANGED <<user_roles, api, stats, layout, employees, employee_seq, wages, wage_seq, now,
                 session_user, page, pageEmployees, pageWages, calculating, calc>>

\* --------------------------------------------------------- Employees page
\* Employees.handleSubmit: `editing` is the listed employee being edited, or
\* NoEmployee for the add dialog.
EmployeesHandleSubmit(s, editing, employeeData, fails) ==
  /\ page[s] = "employees"
  /\ editing \in DOMAIN pageEmployees[s] \cup {NoEmployee}
  /\ LET uid == session_user[s]
         code == CASE fails -> "network"
                   [] editing = NoEmployee ->
                        InsertEmployeesError(uid, NewEmployeeRow(employeeData))
                   [] OTHER -> ""
         inserted == editing = NoEmployee /\ code = ""
     IN /\ inserted => employee_seq < MaxEmployees
        /\ employees' =
             CASE code # "" -> employees
               [] editing = NoEmployee ->
                    employees @@ ((employee_seq + 1) :> NewEmployeeRow(employeeData))
               [] OTHER -> UpdateEmployees(uid, editing, employeeData)
        /\ employee_seq' = IF inserted THEN employee_seq + 1 ELSE employee_seq
        /\ toast' = [session |-> s, message |->
             CASE code # "" /\ editing = NoEmployee -> "Error adding employee"
               [] code # "" -> "Error updating employee"
               [] editing = NoEmployee -> "Employee added successfully"
               [] OTHER -> "Employee updated successfully"]
        /\ pageEmployees' =
             IF code # "" THEN pageEmployees
             ELSE [pageEmployees EXCEPT ![s] = ById(
                     {e \in {[id |-> i] @@ employees'[i] : i \in DOMAIN employees'} :
                        EmployeesSelectPolicy(uid, e)})]
  /\ UNCHANGED <<user_roles, api, stats, layout, attendance, wages, wage_seq, now, session_user,
                 page, pageWages, calculating, calc>>

\* Employees.handleDelete, confirmed: the employee's attendance and wages go
\* with it (ON DELETE CASCADE).
handleDelete(s, id, fails) ==
  /\ page[s] = "employees"
  /\ id \in DOMAIN pageEmployees[s]
  /\ LET uid == session_user[s]
         gone == IF fails THEN {} ELSE DeletedEmployees(uid, id)
     IN /\ employees' = Restrict(employees, DOMAIN employees \ gone)
        /\ attendance' = {a \in attendance : a.employee_id \notin gone}
        /\ wages' = Restrict(wages, {w \in DOMAIN wages : wages[w].employee_id \notin gone})
        /\ toast' = [session |-> s, message |->
             IF fails THEN "Error deleting employee"
             ELSE "Employee deleted successfully"]
        /\ pageEmployees' =
             IF fails THEN pageEmployees
             ELSE [pageEmployees EXCEPT ![s] = ById(
                     {e \in {[id |-> i] @@ employees'[i] : i \in DOMAIN employees'} :
                        EmployeesSelectPolicy(uid, e)})]
  /\ UNCHANGED <<user_roles, api, stats, layout, employee_seq, wage_seq, now, session_user,
                 page, pageWages, calculating, calc>>

\* -------------------------------------------------------------- Wages page
\* The body of attendanceData.forEach in calculateWage, for one record: the
\* running [baseWage, overtimeAmount, advanceDeductions] after `att`.
forEachStep(acc, att, employee) ==
  LET base == CASE att.status = "present" -> acc.baseWage + Num(employee.daily_wage)
                [] att.status = "half_day" -> acc.baseWage + Num(employee.half_day_rate)
                [] OTHER -> acc.baseWage
      overtime == IF att.overtime_hours > 0
                  THEN acc.overtimeAmount
                       + Mul(Num(att.overtime_hours), Num(employee.overtime_rate))
                  ELSE acc.overtimeAmount
      advances == IF att.advance_taken > 0
                  THEN acc.advanceDeductions + Num(att.advance_taken)
                  ELSE acc.advanceDeductions
  IN [baseWage |-> base, overtimeAmount |-> overtime, advanceDeductions |-> advances]

\* attendanceData.forEach over the records in the order the query returned them.
RECURSIVE forEach(_, _, _)
forEach(acc, attendanceData, employee) ==
  IF attendanceData = << >> THEN acc
  ELSE forEach(forEachStep(acc, Head(attendanceData), employee),
               Tail(attendanceData), employee)

\* calculateWage from the query's answer to the row it sends to the insert.
WagePayload(form, employee, attendanceData) ==
  LET sums == forEach([baseWage |-> 0, overtimeAmount |-> 0, advanceDeductions |-> 0],
                      attendanceData, employee)
  IN [ employee_id |-> form.employee_id,
       period_start |-> form.period_start,
       period_end |-> form.period_end,
       calculation_type |-> form.calculation_type,
       base_wage |-> sums.baseWage,
       overtime_amount |-> sums.overtimeAmount,
       advance_deductions |-> sums.advanceDeductions,
       total_wage |-> sums.baseWage + sums.overtimeAmount - sums.advanceDeductions ]

\* The query with .lt in place of .lte: the period's last day is left out.
AttendanceForPeriodOpenEnd(uid, employee_id, period_start, period_end) ==
  {a \in {x \in attendance : AttendanceSelectPolicy(uid, x)} :
     /\ a.employee_id = employee_id
     /\ a.date >= period_start
     /\ a.date < period_end}

\* from("attendance").select("*").eq("employee_id", ..).gte("date", ..)
\* .lte("date", ..) as `uid`: the rows, which come back in no particular order.
AttendanceForPeriod(uid, employee_id, period_start, period_end) ==
  {a \in SelectAttendance(uid) :
     /\ a.employee_id = employee_id
     /\ a.date >= period_start
     /\ a.date <= period_end}

Orders(rows) ==
  {o \in [1..Cardinality(rows) -> rows] :
     \A i, j \in 1..Cardinality(rows) : i # j => o[i] # o[j]}

\* calculateWage up to its first await: the flag is raised, the employee is
\* looked up in the page's loaded list, and the attendance query is sent.  A
\* lookup that fails throws, and the flag is lowered again in the same turn.
calculateWageSubmit(s, form, wageCap) ==
  /\ page[s] = "wages"
  /\ ~calculating[s]
  /\ calc[s].pc = "idle"
  /\ form.employee_id \in DOMAIN pageEmployees[s] \cup {NoEmployee}
  /\ wage_seq + Cardinality({x \in Sessions : calc[x].pc # "idle"}) < wageCap
  /\ IF form.employee_id \in DOMAIN pageEmployees[s]
     THEN /\ calc' = [calc EXCEPT ![s] =
                 [pc |-> "fetch", form |-> form,
                  employee |-> pageEmployees[s][form.employee_id]]]
          /\ calculating' = [calculating EXCEPT ![s] = TRUE]
          /\ toast' = toast
     ELSE /\ calc' = calc
          /\ calculating' = [calculating EXCEPT ![s] = FALSE]
          /\ toast' = [session |-> s, message |-> "Employee not found"]
  /\ UNCHANGED <<db, api, stats, layout, now, session_user, page, pageEmployees, pageWages>>

\* calculateWage with setCalculating(false) at the end of the try block, not in
\* a finally: a thrown error leaves the flag up.
calculateWageFetchNoFinally(s, fails) ==
  /\ calc[s].pc = "fetch"
  /\ IF fails
     THEN /\ calc' = [calc EXCEPT ![s] = Idle]
          /\ calculating' = calculating
          /\ toast' = [session |-> s, message |-> "network"]
     ELSE \E attendanceData \in
               Orders(AttendanceForPeriod(session_user[s], calc[s].form.employee_id,
                        calc[s].form.period_start, calc[s].form.period_end)) :
            /\ calc' = [calc EXCEPT ![s] =
                 [pc |-> "insert", form |-> calc[s].form,
                  employee |-> calc[s].employee,
                  row |-> WagePayload(calc[s].form, calc[s].employee, attendanceData)]]
            /\ calculating' = calculating
            /\ toast' = toast
  /\ UNCHANGED <<db, api, stats, layout, now, session_user, page, pageEmployees, pageWages>>

\* The attendance query is answered; on an error calculateWage throws it, else
\* it folds the records and sends the insert.
calculateWageFetch(s, fails) ==
  /\ calc[s].pc = "fetch"
  /\ IF fails
     THEN /\ calc' = [calc EXCEPT ![s] = Idle]
          /\ calculating' = [calculating EXCEPT ![s] = FALSE]
          /\ toast' = [session |-> s, message |-> "network"]
     ELSE \E attendanceData \in
               Orders(AttendanceForPeriod(session_user[s], calc[s].form.employee_id,
                        calc[s].form.period_start, calc[s].form.period_end)) :
            /\ calc' = [calc EXCEPT ![s] =
                 [pc |-> "insert", form |-> calc[s].form,
                  employee |-> calc[s].employee,
                  row |-> WagePayload(calc[s].form, calc[s].employee, attendanceData)]]
            /\ calculating' = calculating
            /\ toast' = toast
  /\ UNCHANGED <<db, api, stats, layout, now, session_user, page, pageEmployees, pageWages>>

\* The insert goes through whatever the answer: the row stays although the
\* call is reported as failed.
calculateWageInsertKeepsRow(s, fails) ==
  /\ calc[s].pc = "insert"
  /\ LET uid == session_user[s]
         code == IF fails THEN "network" ELSE InsertWagesError(uid, calc[s].row)
     IN /\ wages' = wages @@ ((wage_seq + 1) :> NewWageRow(calc[s].row, now))
        /\ wage_seq' = wage_seq + 1
        /\ toast' = [session |-> s, message |->
             IF code = "" THEN "Wage calculated successfully" ELSE code]
        /\ pageWages' =
             IF code = ""
             THEN [pageWages EXCEPT ![s] = ById(
                     {w \in {[id |-> i] @@ wages'[i] : i \in DOMAIN wages'} :
                        WagesSelectPolicy(uid, w)})]
             ELSE pageWages
  /\ calc' = [calc EXCEPT ![s] = Idle]
  /\ calculating' = [calculating EXCEPT ![s] = FALSE]
  /\ UNCHANGED <<user_roles, api, stats, layout, employees, employee_seq, attendance, now,
                 session_user, page, pageEmployees>>

\* A calculation that settles the advances it deducted: the period's attendance
\* records get advance_taken 0 once the wage row is stored.
calculateWageInsertSettlesAdvances(s, fails) ==
  /\ calc[s].pc = "insert"
  /\ LET uid == session_user[s]
         code == IF fails THEN "network" ELSE InsertWagesError(uid, calc[s].row)
     IN /\ wages' = IF code = "" THEN wages @@ ((wage_seq + 1) :> NewWageRow(calc[s].row, now))
                    ELSE wages
        /\ wage_seq' = IF code = "" THEN wage_seq + 1 ELSE wage_seq
        /\ attendance' =
             IF code = ""
             THEN {IF /\ a.employee_id = calc[s].row.employee_id
                      /\ a.date >= calc[s].row.period_start
                      /\ a.date <= calc[s].row.period_end
                   THEN [a EXCEPT !.advance_taken = 0] ELSE a : a \in attendance}
             ELSE attendance
        /\ toast' = [session |-> s, message |->
             IF code = "" THEN "Wage calculated successfully" ELSE code]
        /\ pageWages' =
             IF code = ""
             THEN [pageWages EXCEPT ![s] = ById(
                     {w \in {[id |-> i] @@ wages'[i] : i \in DOMAIN wages'} :
                        WagesSelectPolicy(uid, w)})]
             ELSE pageWages
  /\ calc' = [calc EXCEPT ![s] = Idle]
  /\ calculating' = [calculating EXCEPT ![s] = FALSE]
  /\ UNCHANGED <<user_roles, api, stats, layout, employees, employee_seq, now,
                 session_user, page, pageEmployees>>

\* The insert is answered: on an error calculateWage throws it; else it reports
\* success and reloads the list.  Either way the flag is lowered.
calculateWageInsert(s, fails) ==
  /\ calc[s].pc = "insert"
  /\ LET uid == session_user[s]
         code == IF fails THEN "network" ELSE InsertWagesError(uid, calc[s].row)
     IN /\ wages' = IF code = "" THEN wages @@ ((wage_seq + 1) :> NewWageRow(calc[s].row, now))
                    ELSE wages
        /\ wage_seq' = IF code = "" THEN wage_seq + 1 ELSE wage_seq
        /\ toast' = [session |-> s, message |->
             IF code = "" THEN "Wage calculated successfully" ELSE code]
        /\ pageWages' =
             IF code = ""
             THEN [pageWages EXCEPT ![s] = ById(
                     {w \in {[id |-> i] @@ wages'[i] : i \in DOMAIN wages'} :
                        WagesSelectPolicy(uid, w)})]
             ELSE pageWages
  /\ calc' = [calc EXCEPT ![s] = Idle]
  /\ calculating' = [calculating EXCEPT ![s] = FALSE]
  /\ UNCHANGED <<user_roles, api, stats, layout, employees, employee_seq, attendance, now,
                 session_user, page, pageEmployees>>

\* A button on every listed row that flips the flag: paid rows become unpaid.
markAsPaidToggle(s, id, fails) ==
  /\ page[s] = "wages"
  /\ id \in DOMAIN pageWages[s]
  /\ id \in DOMAIN wages
  /\ LET uid == session_user[s]
         flipped == [wages EXCEPT ![id] =
                       IF WagesUpdatePolicy(uid, [id |-> id] @@ wages[id])
                       THEN update_updated_at_column(
                              [wages[id] EXCEPT !.paid = ~wages[id].paid,
                                                !.paid_at = IF wages[id].paid THEN NoTime ELSE now],
                              now)
                       ELSE wages[id]]
     IN /\ wages' = IF fails THEN wages ELSE flipped
        /\ toast' = [session |-> s, message |->
             IF fails THEN "Error marking as paid" ELSE "Marked as paid"]
        /\ pageWages' =
             IF fails THEN pageWages
             ELSE [pageWages EXCEPT ![s] = ById(
                     {w \in {[id |-> i] @@ wages'[i] : i \in DOMAIN wages'} :
                        WagesSelectPolicy(uid, w)})]
  /\ UNCHANGED <<user_roles, api, stats, layout, employees, employee_seq, attendance, wage_seq, now,
                 session_user, page, pageEmployees, calculating, calc>>

\* The Mark Paid button of a row the page lists as unpaid: markAsPaid(id) at
\* client time `now`, then the list is reloaded.
markAsPaid(s, id, fails) ==
  /\ page[s] = "wages"
  /\ id \in DOMAIN pageWages[s]
  /\ ~pageWages[s][id].paid
  /\ LET uid == session_user[s]
     IN /\ wages' = IF fails THEN wages ELSE UpdateWagesPaid(uid, id, now, now)
        /\ toast' = [session |-> s, message |->
             IF fails THEN "Error marking as paid" ELSE "Marked as paid"]
        /\ pageWages' =
             IF fails THEN pageWages
             ELSE [pageWages EXCEPT ![s] = ById(
                     {w \in {[id |-> i] @@ wages'[i] : i \in DOMAIN wages'} :
                        WagesSelectPolicy(uid, w)})]
  /\ UNCHANGED <<user_roles, api, stats, layout, employees, employee_seq, attendance, wage_seq, now,
                 session_user, page, pageEmployees, calculating, calc>>

\* ------------------------------------------------- requests on user_roles
\* The table is exposed through the same API as the others; no page writes to
\* it, but any client holding a session (or none) can send these requests.

\* from("user_roles").insert([row]): the insert policy, then UNIQUE (user_id, role).
InsertUserRoles(s, row) ==
  /\ LET uid == session_user[s]
         code == CASE ~UserRolesInsertPolicy(uid, row) -> "42501"
                   [] row \in user_roles -> "23505"
                   [] OTHER -> ""
     IN /\ user_roles' = IF code = "" THEN user_roles \cup {row} ELSE user_roles
        /\ api' = [session |-> s, user |-> uid, code |-> code]
  /\ UNCHANGED <<layout, employees, employee_seq, attendance, wages, wage_seq, now,
                 session_user, ui, stats>>

\* from("user_roles").update({role}).eq("user_id", user_id): the rows the
\* update policy lets through are rewritten, the others are skipped silently.
UpdateUserRoles(s, user_id, role) ==
  /\ LET uid == session_user[s]
     IN /\ user_roles' =
             {IF r.user_id = user_id /\ UserRolesUpdatePolicy(uid, r)
                THEN [r EXCEPT !.role = role] ELSE r : r \in user_roles}
        /\ api' = [session |-> s, user |-> uid, code |-> "update"]
  /\ UNCHANGED <<layout, employees, employee_seq, attendance, wages, wage_seq, now,
                 session_user, ui, stats>>

\* from("user_roles").delete().eq("user_id", user_id), likewise.
DeleteUserRoles(s, user_id) ==
  /\ LET uid == session_user[s]
     IN /\ user_roles' =
             {r \in user_roles :
                ~(r.user_id = user_id /\ UserRolesDeletePolicy(uid, r))}
        /\ api' = [session |-> s, user |-> uid, code |-> "delete"]
  /\ UNCHANGED <<layout, employees, employee_seq, attendance, wages, wage_seq, now,
                 session_user, ui, stats>>

\* ------------------------------------------------------------------ session
\* Layout's onAuthStateChange with a user: the session is now that user's.
\* The pages are left for the sign-in screen in between, so none is mounted.
SignIn(s, u) ==
  /\ session_user[s] = NoUser
  /\ session_user' = [session_user EXCEPT ![s] = u]
  /\ UNCHANGED <<db, api, stats, layout, now, ui>>

\* Layout.handleSignOut: the session ends and the app navigates to /auth.
handleSignOut(s) ==
  /\ session_user[s] # NoUser
  /\ calc[s].pc = "idle"
  /\ session_user' = [session_user EXCEPT ![s] = NoUser]
  /\ page' = [page EXCEPT ![s] = "none"]
  /\ pageEmployees' = [pageEmployees EXCEPT ![s] = Empty]
  /\ pageWages' = [pageWages EXCEPT ![s] = Empty]
  /\ calculating' = [calculating EXCEPT ![s] = FALSE]
  /\ toast' = [session |-> s, message |-> "Signed out successfully"]
  /\ layout' = [layout EXCEPT ![s] = Unmounted]
  /\ UNCHANGED <<db, api, stats, now, calc>>

Forms(dates) ==
  [employee_id : 0..MaxEmployees, period_start : dates, period_end : dates,
   calculation_type : CalculationTypeInputs]

\* One step of the sessions `SS`, with the form inputs drawn from the given
\* sets and at most `wageCap` wage rows ever created.
Step(SS, dates, attendanceInputs, wageCap) ==
  \/ Tick
  \/ \E s \in SS, u \in Users : SignIn(s, u)
  \/ \E s \in SS : handleSignOut(s)
  \/ \E s \in SS, pg \in {"wages", "attendance", "employees"} : Navigate(s, pg)
  \/ \E s \in SS, e \in 0..MaxEmployees, d \in dates,
        input \in attendanceInputs, fails \in BOOLEAN :
       AttendanceHandleSubmit(s, e, d, input, fails)
  \/ \E s \in SS, e \in 0..MaxEmployees, r \in RateInputs, fails \in BOOLEAN :
       EmployeesHandleSubmit(s, e, r, fails)
  \/ \E s \in SS, e \in 1..MaxEmployees, fails \in BOOLEAN :
       handleDelete(s, e, fails)
  \/ \E s \in SS, form \in Forms(dates) : calculateWageSubmit(s, form, wageCap)
  \/ \E s \in SS, fails \in BOOLEAN : calculateWageFetch(s, fails)
  \/ \E s \in SS, fails \in BOOLEAN : calculateWageInsert(s, fails)
  \/ \E s \in SS, id \in 1..wageCap, fails \in BOOLEAN : markAsPaid(s, id, fails)

\* The whole program, one browser session.
Next == Step({"s1"}, Dates, AttendanceInputs, MaxWages)

Spec == Init /\ [][Next]_vars

\* ------------------------------------------------------------- calculation
\* The wage calculation over a populated attendance table: two employees, any
\* attendance the attendance form can have produced for the first one and one
\* record for the second, an admin on the Wages page.
InitCalc ==
  /\ user_roles = { [user_id |-> "alice", role |-> "admin"],
                    [user_id |-> "bob", role |-> "employee"] }
  /\ \E r \in RateInputs :
       employees = (1 :> ([user_id |-> "bob", status |-> "active"] @@ r))
                   @@ (2 :> NewEmployeeRow(r))
  /\ employee_seq = 2
  /\ \E f \in [CalcDates -> CalcAttendanceInputs \cup {[status |-> "none"]}] :
       attendance =
         {[employee_id |-> 1, date |-> d] @@ f[d] :
            d \in {x \in CalcDates : f[x].status # "none"}}
         \cup {[employee_id |-> 2, date |-> 2, status |-> "present",
                overtime_hours |-> 100, advance_taken |-> 500]}
  /\ wages = Empty
  /\ wage_seq = 0
  /\ now = 1
  /\ session_user = [s \in Sessions |-> IF s = "s1" THEN "alice" ELSE NoUser]
  /\ page = [s \in Sessions |-> IF s = "s1" THEN "wages" ELSE "none"]
  /\ pageEmployees = [s \in Sessions |->
       IF s = "s1" THEN loadActiveEmployees("alice") ELSE Empty]
  /\ pageWages = [s \in Sessions |-> Empty]
  /\ calculating = [s \in Sessions |-> FALSE]
  /\ calc = [s \in Sessions |-> Idle]
  /\ toast = [session |-> "s1", message |-> ""]
  /\ api = NoRequest
  /\ stats = [s \in Sessions |-> NoStats]
  /\ layout = [s \in Sessions |-> Unmounted]

NextCalc ==
  \/ \E form \in Forms(CalcDates) : calculateWageSubmit("s1", form, MaxWages)
  \/ \E fails \in BOOLEAN : calculateWageFetch("s1", fails)
  \/ \E fails \in BOOLEAN : calculateWageInsert("s1", fails)

SpecCalc == InitCalc /\ [][NextCalc]_vars

\* ----------------------------------------------------------------- payment
\* Two browser sessions on the Wages page, over two employees with attendance.
InitPay ==
  /\ user_roles = { [user_id |-> "alice", role |-> "admin"],
                    [user_id |-> "bob", role |-> "employee"] }
  /\ \E r \in RateInputs :
       employees = (1 :> ([user_id |-> "bob", status |-> "active"] @@ r))
                   @@ (2 :> NewEmployeeRow(r))
  /\ employee_seq = 2
  /\ attendance =
       {[employee_id |-> e, date |-> 1] @@ input :
          e \in {1, 2},
          input \in {[status |-> "present", overtime_hours |-> 0, advance_taken |-> 0]}}
  /\ wages = Empty
  /\ wage_seq = 0
  /\ now = 1
  /\ session_user = [s \in Sessions |-> NoUser]
  /\ page = [s \in Sessions |-> "none"]
  /\ pageEmployees = [s \in Sessions |-> Empty]
  /\ pageWages = [s \in Sessions |-> Empty]
  /\ calculating = [s \in Sessions |-> FALSE]
  /\ calc = [s \in Sessions |-> Idle]
  /\ toast = [session |-> "s1", message |-> ""]
  /\ api = NoRequest
  /\ stats = [s \in Sessions |-> NoStats]
  /\ layout = [s \in Sessions |-> Unmounted]

NextPay ==
  \/ Tick
  \/ \E s \in Sessions, u \in Users : SignIn(s, u)
  \/ \E s \in Sessions : Navigate(s, "wages")
  \/ \E s \in Sessions, form \in Forms(Dates) : calculateWageSubmit(s, form, PayMaxWages)
  \/ \E s \in Sessions, fails \in BOOLEAN : calculateWageFetch(s, fails)
  \/ \E s \in Sessions, fails \in BOOLEAN : calculateWageInsert(s, fails)
  \/ \E s \in Sessions, id \in 1..PayMaxWages, fails \in BOOLEAN : markAsPaid(s, id, fails)

SpecPay == InitPay /\ [][NextPay]_vars


\* ================================================================== claims
RECURSIVE SumOf(_, _)
SumOf(f, D) ==
  IF D = {} THEN 0
  ELSE LET x == CHOOSE y \in D : TRUE IN f[x] + SumOf(f, D \ {x})

\* C1: every stored wage row has total_wage = base_wage + overtime_amount
\* - advance_deductions, on the values the table holds (rounded to two decimals).
C1_StoredTotalIsSumOfParts ==
  \A i \in DOMAIN wages :
    wages[i].total_wage =
      wages[i].base_wage + wages[i].overtime_amount - wages[i].advance_deductions

\* The attendance table's rows of one employee dated within [from, to].
RecordsInPeriod(employee_id, from, to) ==
  {a \in attendance : a.employee_id = employee_id /\ from <= a.date /\ a.date <= to}

C3_MarkPaidIdempotent ==
  [][\A s \in Sessions, id \in 1..PayMaxWages :
       (id \in DOMAIN wages /\ wages[id].paid /\ markAsPaid(s, id, FALSE))
         => /\ wages'[id].paid
            /\ wages'[id].paid_at = wages[id].paid_at
            /\ toast'.message = "Marked as paid"]_vars

\* C4: a wage row that is paid stays paid for as long as it exists, whatever
\* step is taken.
C4_PaidMonotonic ==
  [][\A i \in DOMAIN wages :
       (wages[i].paid /\ i \in DOMAIN wages') => wages'[i].paid]_vars

\* A paid wage row, with attendance entered after it was paid.
C4_PaidThenOtherOperations ==
  /\ \E i \in DOMAIN wages : wages[i].paid
  /\ toast.message = "Attendance marked successfully"

\* C5: a wage row is paid exactly when its paid_at is set.
C5_PaidIffPaidAt ==
  \A i \in DOMAIN wages : wages[i].paid <=> wages[i].paid_at # NoTime

\* A wage row that was created unpaid at time 1 and marked paid at time 2.
C5_PaidRow ==
  \E i \in DOMAIN wages :
    wages[i].paid /\ wages[i].created_at = 1 /\ wages[i].paid_at = 2

\* What markAsPaid leaves alone outside the wage row it is called on.
MarkPaidLeavesOthers(id) ==
  /\ employees' = employees
  /\ attendance' = attendance
  /\ DOMAIN wages' = DOMAIN wages
  /\ \A i \in DOMAIN wages : i # id => wages'[i] = wages[i]

\* C6 as stated: markAsPaid(id) changes nothing but paid and paid_at of row id.
C6_MarkPaidChangesOnlyPaidFields ==
  [][\A s \in Sessions, id \in 1..PayMaxWages, fails \in BOOLEAN :
       (id \in DOMAIN wages /\ markAsPaid(s, id, fails))
         => /\ MarkPaidLeavesOthers(id)
            /\ [wages'[id] EXCEPT !.paid = wages[id].paid,
                                  !.paid_at = wages[id].paid_at] = wages[id]]_vars

\* C6, amended: markAsPaid(id) changes nothing but paid, paid_at and updated_at
\* of row id.
C6_MarkPaidFrame ==
  [][\A s \in Sessions, id \in 1..PayMaxWages, fails \in BOOLEAN :
       (id \in DOMAIN wages /\ markAsPaid(s, id, fails))
         => /\ MarkPaidLeavesOthers(id)
            /\ [wages'[id] EXCEPT !.paid = wages[id].paid,
                                  !.paid_at = wages[id].paid_at,
                                  !.updated_at = wages[id].updated_at] = wages[id]]_vars

\* Two wage rows created at time 1; one was marked paid at time 2 and carries
\* the new updated_at, the other is as it was created.
C6_OnePaidOneUntouched ==
  /\ toast.message = "Marked as paid"
  /\ \E i, j \in DOMAIN wages :
       /\ wages[i].paid /\ wages[i].created_at = 1 /\ wages[i].updated_at = 2
       /\ ~wages[j].paid /\ wages[j].created_at = 1 /\ wages[j].updated_at = 1

AttendanceUnique ==
  \A a, b \in attendance :
    (a.employee_id = b.employee_id /\ a.date = b.date) => a = b

AlreadyMarked(e, d) == \E a \in attendance : a.employee_id = e /\ a.date = d

\* C7 as stated: the attendance table never holds two rows for one (employee,
\* date); a submit for a pair that already has a row leaves the table as it is
\* and is reported as "Attendance already marked for this employee on this date".
C7_DuplicateAlwaysReportedAsDuplicate ==
  [][/\ AttendanceUnique'
     /\ \A s \in Sessions, e \in 1..MaxEmployees, d \in Dates, input \in AttendanceInputs :
          (AlreadyMarked(e, d) /\ AttendanceHandleSubmit(s, e, d, input, FALSE))
            => /\ attendance' = attendance
               /\ toast'.message =
                    "Attendance already marked for this employee on this date"]_vars

\* C7, amended: as above, with the specific report promised to an admin only.
C7_DuplicateRejected ==
  [][/\ AttendanceUnique'
     /\ \A s \in Sessions, e \in 1..MaxEmployees, d \in Dates, input \in AttendanceInputs :
          (AlreadyMarked(e, d) /\ AttendanceHandleSubmit(s, e, d, input, FALSE))
            => /\ attendance' = attendance
               /\ has_role(session_user[s], "admin") =>
                    toast'.message =
                      "Attendance already marked for this employee on this date"]_vars

\* An admin's second submit for a pair was refused: the table holds the first
\* row alone.
C7_SecondSubmitRefused ==
  /\ toast.message = "Attendance already marked for this employee on this date"
  /\ has_role(session_user[toast.session], "admin")
  /\ attendance = {[employee_id |-> 1, date |-> 1, status |-> "present",
                    overtime_hours |-> 0, advance_taken |-> 0]}

OwnedBy(u, employee_id) ==
  /\ u # NoUser
  /\ employee_id \in DOMAIN employees
  /\ employees[employee_id].user_id = u

\* C8: a caller without the admin role (signed in or not) reads exactly the
\* employee rows whose user_id is its own, and exactly the attendance and wage
\* rows of those employees; the lists its pages hold show nothing else.
C8_ReadAccessPerRow ==
  /\ \A u \in Users \cup {NoUser} :
       ~has_role(u, "admin") =>
         /\ SelectEmployees(u) = {e \in EmployeeRows : OwnedBy(u, e.id)}
         /\ SelectAttendance(u) = {a \in attendance : OwnedBy(u, a.employee_id)}
         /\ SelectWages(u) = {w \in WageRows : OwnedBy(u, w.employee_id)}
  /\ \A s \in Sessions :
       ~has_role(session_user[s], "admin") =>
         /\ \A i \in DOMAIN pageEmployees[s] \cap DOMAIN employees :
              OwnedBy(session_user[s], i)
         /\ \A i \in DOMAIN pageWages[s] :
              pageWages[s][i].employee_id \in DOMAIN employees
                => OwnedBy(session_user[s], pageWages[s][i].employee_id)

\* bob, who owns employee 1, is on the Wages page and is shown his wage row,
\* while the tables also hold attendance of another employee.
C8_OwnerSeesOwnRowsOnly ==
  /\ session_user["s1"] = "bob"
  /\ page["s1"] = "wages"
  /\ DOMAIN pageEmployees["s1"] = {1}
  /\ DOMAIN pageWages["s1"] # {}
  /\ SelectAttendance("bob") # {}
  /\ \E a \in attendance : a.employee_id = 2
  /\ 2 \in DOMAIN employees

\* Some handler of session s that writes to a table runs in this step.
WriteAttempt(s) ==
  \/ \E e \in 0..MaxEmployees, d \in Dates, input \in AttendanceInputs, fails \in BOOLEAN :
       AttendanceHandleSubmit(s, e, d, input, fails)
  \/ \E e \in 0..MaxEmployees, r \in RateInputs, fails \in BOOLEAN :
       EmployeesHandleSubmit(s, e, r, fails)
  \/ \E e \in 1..MaxEmployees, fails \in BOOLEAN : handleDelete(s, e, fails)
  \/ \E fails \in BOOLEAN : calculateWageInsert(s, fails)
  \/ \E id \in 1..MaxWages, fails \in BOOLEAN : markAsPaid(s, id, fails)

\* C9: a write attempted by a session whose user lacks the admin role leaves
\* the employees, attendance and wages tables as they were.
C9_NonAdminWritesChangeNothing ==
  [][\A s \in Sessions :
       (~has_role(session_user[s], "admin") /\ WriteAttempt(s))
         => UNCHANGED <<employees, attendance, wages>>]_vars

\* bob pressed Mark Paid on the wage row of the employee he owns; it is unpaid.
C9_OwnerPressedMarkPaid ==
  /\ session_user["s1"] = "bob"
  /\ toast = [session |-> "s1", message |-> "Marked as paid"]
  /\ \E i \in DOMAIN wages : ~wages[i].paid /\ OwnedBy("bob", wages[i].employee_id)

\* C10: for a user holding the admin role every policy of employees, attendance
\* and wages (select, insert, update, delete) lets every row through, whoever
\* owns the row's employee.
C10_AdminAllowedEverything ==
  \A u \in Users :
    has_role(u, "admin") =>
      /\ \A e \in EmployeeRows \cup {NewEmployeeRow(r) : r \in RateInputs} :
           /\ EmployeesSelectPolicy(u, e) /\ EmployeesInsertPolicy(u, e)
           /\ EmployeesUpdatePolicy(u, e) /\ EmployeesDeletePolicy(u, e)
      /\ \A a \in attendance :
           /\ AttendanceSelectPolicy(u, a) /\ AttendanceInsertPolicy(u, a)
           /\ AttendanceUpdatePolicy(u, a) /\ AttendanceDeletePolicy(u, a)
      /\ \A w \in WageRows :
           /\ WagesSelectPolicy(u, w) /\ WagesInsertPolicy(u, w)
           /\ WagesUpdatePolicy(u, w) /\ WagesDeletePolicy(u, w)

\* alice, an admin, marked paid the wage row of the employee bob owns.
C10_AdminPaidAnothersWage ==
  /\ toast.message = "Marked as paid"
  /\ session_user[toast.session] = "alice"
  /\ \E i \in DOMAIN wages : wages[i].paid /\ OwnedBy("bob", wages[i].employee_id)

\* ------------------------------------------------------------------- roles
\* Sessions that sign in and out, open pages and send requests on user_roles.
NextRoles ==
  \/ \E s \in Sessions, u \in Users : SignIn(s, u)
  \/ \E s \in Sessions : handleSignOut(s)
  \/ \E s \in Sessions : Navigate(s, "wages")
  \/ \E s \in Sessions, row \in RoleInputs : InsertUserRoles(s, row)
  \/ \E s \in Sessions, u \in Users, role \in {"admin", "employee"} :
       UpdateUserRoles(s, u, role)
  \/ \E s \in Sessions, u \in Users : DeleteUserRoles(s, u)

SpecRoles == Init /\ [][NextRoles]_vars

\* Session s sends some write request on user_roles in this step.
RolesWriteAttempt(s) ==
  \/ \E row \in RoleInputs : InsertUserRoles(s, row)
  \/ \E u \in Users, role \in {"admin", "employee"} : UpdateUserRoles(s, u, role)
  \/ \E u \in Users : DeleteUserRoles(s, u)

\* C11: a caller reads exactly its own role rows, an admin reads all of them;
\* a write request on user_roles by a session whose user is not an admin leaves
\* the table as it was, and no step makes an admin of a user who was not one.
C11_NoRoleEscalation ==
  /\ [](\A u \in Users \cup {NoUser} :
          SelectUserRoles(u) =
            IF has_role(u, "admin") THEN user_roles
            ELSE {r \in user_roles : u # NoUser /\ r.user_id = u})
  /\ [][/\ \A s \in Sessions :
            (~has_role(session_user[s], "admin") /\ RolesWriteAttempt(s))
              => user_roles' = user_roles
        /\ \A u \in Users :
            has_role(u, "admin")' => has_role(u, "admin")]_vars

\* bob asked for a role row and was refused; he is no admin.
C11_EscalationRefused ==
  /\ api.user = "bob"
  /\ api.code = "42501"
  /\ ~has_role("bob", "admin")
  /\ SelectUserRoles("bob") = {[user_id |-> "bob", role |-> "employee"]}

\* ------------------------------------------------- calculation: its effects
WageFields ==
  {"employee_id", "period_start", "period_end", "calculation_type", "base_wage",
   "overtime_amount", "advance_deductions", "total_wage", "paid", "paid_at",
   "created_at", "updated_at"}

\* The stored row w is the whole of the payload `row`: every column has a
\* value, the form's and the computed ones as sent, the others their defaults.
FullyPopulated(w, row) ==
  /\ DOMAIN w = WageFields
  /\ w.employee_id = row.employee_id
  /\ w.period_start = row.period_start
  /\ w.period_end = row.period_end
  /\ w.calculation_type = row.calculation_type
  /\ w.base_wage = RoundDecimal2(row.base_wage)
  /\ w.overtime_amount = RoundDecimal2(row.overtime_amount)
  /\ w.advance_deductions = RoundDecimal2(row.advance_deductions)
  /\ w.total_wage = RoundDecimal2(row.total_wage)
  /\ w.paid = FALSE
  /\ w.paid_at = NoTime

\* C12: a calculation that fails leaves the wages table as it was: a failed
\* attendance query ends the call with no insert sent, a failed insert keeps no
\* row; a calculation that succeeds adds exactly one row, whole, and leaves the
\* other rows alone.
C12_FailedCalculateKeepsWages ==
  [][\A s \in Sessions :
       /\ (\E form \in Forms(Dates) : calculateWageSubmit(s, form, MaxWages))
            => wages' = wages
       /\ calculateWageFetch(s, TRUE) => (wages' = wages /\ calc'[s] = Idle)
       /\ calculateWageFetch(s, FALSE) => wages' = wages
       /\ \A fails \in BOOLEAN :
            calculateWageInsert(s, fails) =>
              IF toast'.message = "Wage calculated successfully"
              THEN \E id \in DOMAIN wages' \ DOMAIN wages :
                     /\ DOMAIN wages' = DOMAIN wages \cup {id}
                     /\ \A i \in DOMAIN wages : wages'[i] = wages[i]
                     /\ FullyPopulated(wages'[id], calc[s].row)
              ELSE wages' = wages]_vars

\* bob's calculation for the employee he owns got as far as the insert, which
\* the policy refused: no wage row exists.
C12_InsertRefusedNothingKept ==
  /\ toast = [session |-> "s1", message |-> "42501"]
  /\ session_user["s1"] = "bob"
  /\ calc["s1"] = Idle
  /\ wages = Empty
  /\ wage_seq = 0

\* Some step of calculateWage of session s runs.
CalculateStep(s) ==
  \/ \E form \in Forms(Dates) : calculateWageSubmit(s, form, MaxWages)
  \/ \E fails \in BOOLEAN : calculateWageFetch(s, fails)
  \/ \E fails \in BOOLEAN : calculateWageInsert(s, fails)

\* C13: no step of a calculation changes the employees or attendance tables
\* (or the roles); of the wages table it keeps every row as it is and adds at
\* most one.
C13_CalculateOnlyAddsWage ==
  [][\A s \in Sessions :
       CalculateStep(s) =>
         /\ UNCHANGED <<user_roles, employees, employee_seq, attendance>>
         /\ \A i \in DOMAIN wages : i \in DOMAIN wages' /\ wages'[i] = wages[i]
         /\ Cardinality(DOMAIN wages') <= Cardinality(DOMAIN wages) + 1]_vars

\* A wage was calculated over a period holding a record with an advance; the
\* record still shows the advance.
C13_CalculatedOverAdvance ==
  /\ toast.message = "Wage calculated successfully"
  /\ \E i \in DOMAIN wages :
       /\ wages[i].advance_deductions > 0
       /\ \E a \in attendance :
            /\ a.employee_id = wages[i].employee_id
            /\ a.date >= wages[i].period_start
            /\ a.date <= wages[i].period_end
            /\ a.advance_taken = wages[i].advance_deductions

\* ------------------------------------------------------------- two desks
\* Two browser sessions of the admin: one stays on the Wages page, calculating
\* and paying; the other marks attendance and edits or deletes employees.
InitOffice ==
  /\ user_roles = { [user_id |-> "alice", role |-> "admin"],
                    [user_id |-> "bob", role |-> "employee"] }
  /\ \E r \in RateInputs :
       employees = (1 :> ([user_id |-> NoUser, status |-> "active"] @@ r))
  /\ employee_seq = 1
  /\ attendance = {}
  /\ wages = Empty
  /\ wage_seq = 0
  /\ now = 1
  /\ session_user = [s \in Sessions |-> "alice"]
  /\ page = [s \in Sessions |-> IF s = "s1" THEN "wages" ELSE "employees"]
  /\ pageEmployees = [s \in Sessions |->
       IF s = "s1" THEN loadActiveEmployees("alice")
       ELSE EmployeesLoadEmployees("alice")]
  /\ pageWages = [s \in Sessions |-> Empty]
  /\ calculating = [s \in Sessions |-> FALSE]
  /\ calc = [s \in Sessions |-> Idle]
  /\ toast = [session |-> "s1", message |-> ""]
  /\ api = NoRequest
  /\ stats = [s \in Sessions |-> NoStats]
  /\ layout = [s \in Sessions |-> Unmounted]

NextOffice ==
  \/ Navigate("s1", "wages")
  \/ \E pg \in {"attendance", "employees"} : Navigate("s2", pg)
  \/ \E e \in 1..MaxEmployees, d \in Dates, input \in AttendanceInputs :
       AttendanceHandleSubmit("s2", e, d, input, FALSE)
  \/ \E e \in 0..MaxEmployees, r \in RateInputs :
       EmployeesHandleSubmit("s2", e, r, FALSE)
  \/ \E e \in 1..MaxEmployees : handleDelete("s2", e, FALSE)
  \/ \E form \in Forms(Dates) : calculateWageSubmit("s1", form, OfficeMaxWages)
  \/ calculateWageFetch("s1", FALSE)
  \/ calculateWageInsert("s1", FALSE)
  \/ \E id \in 1..OfficeMaxWages : markAsPaid("s1", id, FALSE)

SpecOffice == InitOffice /\ [][NextOffice]_vars

\* C14: in every step, a wage row that exists before and after keeps its
\* base_wage, overtime_amount, advance_deductions and total_wage, whatever the
\* step (attendance marked inside its period, the employee's rates edited, the
\* row marked paid, another calculation for the same period).
C14_AmountsWriteOnce ==
  [][\A i \in DOMAIN wages \cap DOMAIN wages' :
       /\ wages'[i].base_wage = wages[i].base_wage
       /\ wages'[i].overtime_amount = wages[i].overtime_amount
       /\ wages'[i].advance_deductions = wages[i].advance_deductions
       /\ wages'[i].total_wage = wages[i].total_wage]_vars

\* Two wage rows of one employee and period with different amounts: the older
\* one, since paid, kept the amounts it was created with, and the calculation
\* run after the attendance or the rates changed made a new row.
C14_RecalculatedAsNewRow ==
  \E i, j \in DOMAIN wages :
    /\ i < j
    /\ wages[i].employee_id = wages[j].employee_id
    /\ wages[i].period_start = wages[j].period_start
    /\ wages[i].period_end = wages[j].period_end
    /\ wages[i].paid
    /\ wages[i].total_wage # wages[j].total_wage
    /\ wages[i].advance_deductions # wages[j].advance_deductions

\* ------------------------------------------------------------ Reports page
\* The wage totals of the rows the Reports page is checked on (hundredths).
TotalWageInputs == {10, 20, 30}

\* Number(w.total_wage): the double nearest to the two-decimal value.
Number(hundredths) == [v |-> hundredths, err |-> 0]

\* IEEE-754 binary64 addition, round to nearest even, of a running sum
\* <<v, err>> and a two-decimal value b, tabulated for the sums that up to five
\* values of TotalWageInputs make: the triples <<v, err, b>> whose result is
\* the double nearest to v + b, one unit in the last place above it, or one
\* below it.  (0.1 + 0.2 is 0.30000000000000004; 0.3 + 0.2 is 0.5.)
Add64Exact ==
  {<<0, 0, 10>>, <<0, 0, 20>>, <<0, 0, 30>>, <<10, 0, 10>>, <<10, 0, 30>>,
   <<20, 0, 20>>, <<20, 0, 30>>, <<30, 0, 10>>, <<30, 0, 20>>, <<30, 0, 30>>,
   <<30, 1, 10>>, <<30, 1, 20>>, <<40, 0, 10>>, <<40, 0, 30>>, <<50, 0, 10>>,
   <<50, 0, 20>>, <<50, 0, 30>>, <<60, 0, 10>>, <<60, 0, 20>>, <<60, 1, 20>>,
   <<70, 0, 30>>, <<70, 1, 10>>, <<70, 1, 30>>, <<80, -1, 20>>,
   <<80, 0, 10>>, <<80, 0, 20>>, <<80, 0, 30>>, <<90, -1, 30>>,
   <<90, 0, 10>>, <<90, 0, 20>>, <<90, 0, 30>>, <<90, 1, 20>>,
   <<100, -1, 20>>, <<100, 0, 10>>, <<100, 0, 20>>, <<100, 0, 30>>,
   <<110, -1, 10>>, <<110, -1, 30>>, <<110, 0, 20>>, <<120, 0, 10>>,
   <<120, 0, 20>>, <<120, 0, 30>>}

Add64Up ==
  {<<10, 0, 20>>, <<20, 0, 10>>, <<30, 1, 30>>, <<40, 0, 20>>, <<60, 1, 10>>,
   <<60, 1, 30>>, <<70, 1, 20>>, <<90, 1, 10>>, <<90, 1, 30>>,
   <<110, 0, 10>>, <<110, 0, 30>>}

Add64Down ==
  {<<60, 0, 30>>, <<70, 0, 10>>, <<70, 0, 20>>, <<80, -1, 10>>,
   <<80, -1, 30>>, <<90, -1, 10>>, <<90, -1, 20>>,
   <<100, -1, 10>>, <<100, -1, 30>>, <<110, -1, 20>>}

\* sum + Number(w.total_wage)
Add64(sum, b) ==
  [v |-> sum.v + b.v,
   err |-> CASE <<sum.v, sum.err, b.v>> \in Add64Exact -> 0
             [] <<sum.v, sum.err, b.v>> \in Add64Up -> 1
             [] <<sum.v, sum.err, b.v>> \in Add64Down -> -1]

\* wageData.reduce((sum, w) => sum + Number(w.total_wage), sum)
RECURSIVE reduce(_, _)
reduce(wageData, sum) ==
  IF wageData = << >> THEN sum
  ELSE reduce(Tail(wageData), Add64(sum, Number(Head(wageData).total_wage)))

IsPaid(w) == w.paid
IsPending(w) == ~w.paid

\* The statistics with the average taken over all the records.
calculateStatsAverageOverAll(wageData) ==
  LET paid == SelectSeq(wageData, IsPaid)
      pending == SelectSeq(wageData, IsPending)
      totalPaid == reduce(paid, Zero)
      totalPending == reduce(pending, Zero)
      uniqueEmployees == Cardinality({paid[i].employee_id : i \in DOMAIN paid})
      averageWage == IF Len(wageData) > 0
                     THEN [num |-> totalPaid, den |-> Len(wageData)]
                     ELSE [num |-> Zero, den |-> 1]
  IN [totalPaid |-> totalPaid, totalPending |-> totalPending,
      employeesPaid |-> uniqueEmployees, averageWage |-> averageWage]

\* Reports.calculateStats; the quotient totalPaid / paid.length is kept as the
\* pair it is the quotient of.
calculateStats(wageData) ==
  LET paid == SelectSeq(wageData, IsPaid)
      pending == SelectSeq(wageData, IsPending)
      totalPaid == reduce(paid, Zero)
      totalPending == reduce(pending, Zero)
      uniqueEmployees == Cardinality({paid[i].employee_id : i \in DOMAIN paid})
      averageWage == IF Len(paid) > 0
                     THEN [num |-> totalPaid, den |-> Len(paid)]
                     ELSE [num |-> Zero, den |-> 1]
  IN [totalPaid |-> totalPaid, totalPending |-> totalPending,
      employeesPaid |-> uniqueEmployees, averageWage |-> averageWage]

\* from("wages").select(..).order("paid_at", {ascending: false, nullsFirst:
\* false}) as `uid`: the visible rows, latest payment first and the unpaid ones
\* last; rows with equal paid_at come in any order.
ReportsWagesQuery(uid) ==
  {o \in Orders(SelectWages(uid)) :
     \A i, j \in DOMAIN o : i < j => o[i].paid_at >= o[j].paid_at}

\* The Reports page mounts and its loadWages runs: on an answer the rows and
\* their statistics are set, on an error both keep their initial values.
ReportsLoadWages(s, fails) ==
  /\ session_user[s] # NoUser
  /\ calc[s] = Idle
  /\ page' = [page EXCEPT ![s] = "reports"]
  /\ pageEmployees' = [pageEmployees EXCEPT ![s] = Empty]
  /\ calculating' = [calculating EXCEPT ![s] = FALSE]
  /\ IF fails
     THEN /\ pageWages' = [pageWages EXCEPT ![s] = Empty]
          /\ stats' = [stats EXCEPT ![s] = NoStats]
     ELSE \E data \in ReportsWagesQuery(session_user[s]) :
            /\ pageWages' = [pageWages EXCEPT ![s] = ById(SelectWages(session_user[s]))]
            /\ stats' = [stats EXCEPT ![s] = calculateStats(data)]
  /\ UNCHANGED <<layout, db, api, now, session_user, calc, toast>>

\* A wages table of up to MaxStatsRows rows of two employees, paid or not, as
\* calculations and payments leave them, with alice signed in.
StatsWageRows ==
  { [ employee_id |-> e, period_start |-> 1, period_end |-> 1,
      calculation_type |-> "weekly", base_wage |-> total, overtime_amount |-> 0,
      advance_deductions |-> 0, total_wage |-> total, paid |-> paid_at # NoTime,
      paid_at |-> paid_at, created_at |-> 1,
      updated_at |-> IF paid_at = NoTime THEN 1 ELSE paid_at ] :
      e \in 1..MaxEmployees, total \in TotalWageInputs, paid_at \in {NoTime} \cup 1..MaxClock }

InitStats ==
  /\ user_roles = { [user_id |-> "alice", role |-> "admin"],
                    [user_id |-> "bob", role |-> "employee"] }
  /\ employees = [i \in 1..MaxEmployees |->
       [user_id |-> IF i = 1 THEN "bob" ELSE NoUser, status |-> "active",
        daily_wage |-> 10, overtime_rate |-> 0, half_day_rate |-> 10]]
  /\ employee_seq = MaxEmployees
  /\ attendance = {}
  /\ \E n \in 0..MaxStatsRows : wages \in [1..n -> StatsWageRows]
  /\ wage_seq = Len(wages)
  /\ now = MaxClock
  /\ session_user = [s \in Sessions |-> IF s = "s1" THEN "alice" ELSE NoUser]
  /\ page = [s \in Sessions |-> "none"]
  /\ pageEmployees = [s \in Sessions |-> Empty]
  /\ pageWages = [s \in Sessions |-> Empty]
  /\ calculating = [s \in Sessions |-> FALSE]
  /\ calc = [s \in Sessions |-> Idle]
  /\ toast = [session |-> "s1", message |-> ""]
  /\ api = NoRequest
  /\ stats = [s \in Sessions |-> NoStats]
  /\ layout = [s \in Sessions |-> Unmounted]

NextStats == \E fails \in BOOLEAN : ReportsLoadWages("s1", fails)

SpecStats == InitStats /\ [][NextStats]_vars

\* The rows a Reports page holds.
ReportRows(s) == {[id |-> i] @@ pageWages[s][i] : i \in DOMAIN pageWages[s]}

\* C15: the statistics a Reports page shows are, over the rows it loaded:
\* totalPaid the sum of total_wage of the paid rows and totalPending that of
\* the unpaid rows (as decimal values; the doubles lie within a unit in the
\* last place of them), employeesPaid the number of distinct employee_id among
\* the paid rows, averageWage totalPaid over the number of paid rows, and 0
\* when no row is paid.
C15_StatsAreTheSums ==
  \A s \in Sessions :
    page[s] = "reports" =>
      LET paid == {w \in ReportRows(s) : w.paid}
          pending == {w \in ReportRows(s) : ~w.paid}
          total == [i \in DOMAIN pageWages[s] |-> pageWages[s][i].total_wage]
      IN /\ stats[s].totalPaid.v = SumOf(total, {w.id : w \in paid})
         /\ stats[s].totalPending.v = SumOf(total, {w.id : w \in pending})
         /\ stats[s].totalPaid.err \in -1..1
         /\ stats[s].totalPending.err \in -1..1
         /\ stats[s].employeesPaid = Cardinality({w.employee_id : w \in paid})
         /\ stats[s].averageWage =
              IF paid = {} THEN [num |-> Zero, den |-> 1]
              ELSE [num |-> stats[s].totalPaid, den |-> Cardinality(paid)]

\* A report over two paid rows of one employee and an unpaid row.
C15_TwoPaidOnePending ==
  /\ page["s1"] = "reports"
  /\ Cardinality({w \in ReportRows("s1") : w.paid}) = 2
  /\ Cardinality({w \in ReportRows("s1") : ~w.paid}) = 1
  /\ stats["s1"].employeesPaid = 1
  /\ stats["s1"].totalPaid.v = 30
  /\ stats["s1"].totalPending.v = 30
  /\ stats["s1"].averageWage.den = 2

\* C16: calculateStats of the empty list is the four zeros, and the statistics
\* a Reports page shows are what calculateStats returns for every order of the
\* rows it loaded.
C16_StatsOrderIndependent ==
  /\ calculateStats(<< >>) = NoStats
  /\ \A s \in Sessions :
       (page[s] = "reports" /\ (pageWages[s] # Empty \/ stats[s] # NoStats)) =>
         \A o \in Orders(ReportRows(s)) :
           LET wageData == [i \in DOMAIN o |-> pageWages[s][o[i].id]]
           IN calculateStats(wageData) = stats[s]

\* --------------------------------------------------- errors of the Wages page
\* C17: a calculation ends at once with "Employee not found" exactly when the
\* form's employee is not a row of the employees table at that moment, and then
\* no wage row is made.
C17_NotFoundIffAbsent ==
  [][\A s \in Sessions, form \in Forms(Dates) :
       calculateWageSubmit(s, form, OfficeMaxWages) =>
         /\ (calc'[s] = Idle) <=> (form.employee_id \notin DOMAIN employees)
         /\ wages' = wages]_vars

\* C18: the rates a calculation takes up are the ones the employees table holds
\* for the employee when the calculation starts.
C18_RatesFromStore ==
  [][\A s \in Sessions, form \in Forms(Dates) :
       (/\ calculateWageSubmit(s, form, OfficeMaxWages)
        /\ calc'[s] # Idle
        /\ form.employee_id \in DOMAIN employees) =>
         /\ calc'[s].employee.daily_wage = employees[form.employee_id].daily_wage
         /\ calc'[s].employee.half_day_rate = employees[form.employee_id].half_day_rate
         /\ calc'[s].employee.overtime_rate = employees[form.employee_id].overtime_rate]_vars

\* C19: Mark Paid on an id that is no row of the wages table is not reported
\* as "Marked as paid", and changes no table.
C19_MarkPaidUnknownIdFails ==
  [][\A s \in Sessions, id \in 1..OfficeMaxWages :
       (markAsPaid(s, id, FALSE) /\ id \notin DOMAIN wages) =>
         /\ toast'.message # "Marked as paid"
         /\ UNCHANGED db]_vars

\* C20: when the session's user is not an admin, neither the insert of a
\* calculation nor Mark Paid is reported as a success, and the wages table is
\* left as it was.
C20_DeniedIsReported ==
  [][\A s \in Sessions :
       ~has_role(session_user[s], "admin") =>
         /\ \A fails \in BOOLEAN :
              calculateWageInsert(s, fails) =>
                /\ toast'.message # "Wage calculated successfully"
                /\ wages' = wages
         /\ \A id \in 1..MaxWages, fails \in BOOLEAN :
              markAsPaid(s, id, fails) =>
                /\ toast'.message # "Marked as paid"
                /\ wages' = wages]_vars

\* ------------------------------------------------------------- validation
\* C21: every row of the wages table has period_start <= period_end (a
\* calculation submitted with the start after the end stores no row).
C21_PeriodOrdered ==
  \A i \in DOMAIN wages : wages[i].period_start <= wages[i].period_end

\* Rates with a minus sign, which the number inputs of the employee form take.
NegativeRateInputs ==
  { [daily_wage |-> -100, overtime_rate |-> 0, half_day_rate |-> -50],
    [daily_wage |-> 100, overtime_rate |-> -3, half_day_rate |-> 50] }

\* An admin on the Employees page, adding, editing and deleting employees with
\* any rates the form takes.
InitRates ==
  /\ user_roles = { [user_id |-> "alice", role |-> "admin"],
                    [user_id |-> "bob", role |-> "employee"] }
  /\ \E r \in RateInputs :
       employees = (1 :> ([user_id |-> NoUser, status |-> "active"] @@ r))
  /\ employee_seq = 1
  /\ attendance = {}
  /\ wages = Empty
  /\ wage_seq = 0
  /\ now = 1
  /\ session_user = [s \in Sessions |-> IF s = "s1" THEN "alice" ELSE NoUser]
  /\ page = [s \in Sessions |-> IF s = "s1" THEN "employees" ELSE "none"]
  /\ pageEmployees = [s \in Sessions |->
       IF s = "s1" THEN EmployeesLoadEmployees("alice") ELSE Empty]
  /\ pageWages = [s \in Sessions |-> Empty]
  /\ calculating = [s \in Sessions |-> FALSE]
  /\ calc = [s \in Sessions |-> Idle]
  /\ toast = [session |-> "s1", message |-> ""]
  /\ api = NoRequest
  /\ stats = [s \in Sessions |-> NoStats]
  /\ layout = [s \in Sessions |-> Unmounted]

NextRates ==
  \/ Navigate("s1", "employees")
  \/ \E e \in 0..MaxEmployees, r \in RateInputs \cup NegativeRateInputs,
        fails \in BOOLEAN :
       EmployeesHandleSubmit("s1", e, r, fails)
  \/ \E e \in 1..MaxEmployees, fails \in BOOLEAN : handleDelete("s1", e, fails)

SpecRates == InitRates /\ [][NextRates]_vars

\* C22: every row of the employees table has daily_wage, overtime_rate and
\* half_day_rate at or above zero (a form carrying a negative rate stores
\* nothing).
C22_RatesNonNegative ==
  \A i \in DOMAIN employees :
    /\ employees[i].daily_wage >= 0
    /\ employees[i].overtime_rate >= 0
    /\ employees[i].half_day_rate >= 0

\* ------------------------------------------------------- employee status
\* from("employees").update({status}).eq("id", id) as the session's user: the
\* column takes 'active' or 'inactive' and the update policy lets an admin
\* through.  No page sends this request; the Wages and Attendance pages only
\* filter on the column when they load their lists.
UpdateEmployeesStatus(s, id, status) ==
  /\ session_user[s] # NoUser
  /\ status \in {"active", "inactive"}
  /\ employees' =
       [i \in DOMAIN employees |->
          IF i = id /\ EmployeesUpdatePolicy(session_user[s], [id |-> i] @@ employees[i])
            THEN [employees[i] EXCEPT !.status = status]
            ELSE employees[i]]
  /\ UNCHANGED <<layout, user_roles, employee_seq, attendance, wages, wage_seq, now,
                 session_user, ui, api, stats>>

\* An admin marking attendance and calculating wages in one session while
\* another admin session changes the status of employees.
NextStatus ==
  \/ \E pg \in {"wages", "attendance"} : Navigate("s1", pg)
  \/ \E e \in 1..MaxEmployees, d \in Dates, input \in AttendanceInputs :
       AttendanceHandleSubmit("s1", e, d, input, FALSE)
  \/ \E form \in Forms(Dates) : calculateWageSubmit("s1", form, MaxWages)
  \/ calculateWageFetch("s1", FALSE)
  \/ calculateWageInsert("s1", FALSE)
  \/ \E e \in 1..MaxEmployees, status \in {"active", "inactive"} :
       UpdateEmployeesStatus("s2", e, status)

SpecStatus == InitOffice /\ [][NextStatus]_vars

\* C23: a step that adds an attendance row or a wage row adds it for an
\* employee whose status is 'active' when the step is taken.
C23_NoRowsForInactive ==
  [][/\ \A a \in attendance' \ attendance :
          /\ a.employee_id \in DOMAIN employees
          /\ employees[a.employee_id].status = "active"
     /\ \A i \in DOMAIN wages' \ DOMAIN wages :
          /\ wages'[i].employee_id \in DOMAIN employees
          /\ employees[wages'[i].employee_id].status = "active"]_vars

\* ------------------------------------------------- attendance, once written
\* C24 as stated: no step takes a row out of the attendance table or changes
\* one; the table only grows, by an insert that passed the uniqueness check.
C24_AttendanceNeverRemoved ==
  [][/\ attendance \subseteq attendance'
     /\ AttendanceUnique'
     /\ Cardinality(attendance' \ attendance) <= 1]_vars

\* C24, amended: a row of the attendance table stays as it is for as long as
\* its employee exists, and goes only in the step that deletes its employee;
\* the table gains rows only one at a time, through an attendance submit
\* reported as a success, and never two for one (employee, date).
C24_AttendanceKeptWhileEmployeeExists ==
  [][/\ \A a \in attendance :
          a \in attendance' \/ a.employee_id \notin DOMAIN employees'
     /\ AttendanceUnique'
     /\ Cardinality(attendance' \ attendance) <= 1
     /\ attendance' \ attendance # {} =>
          toast'.message = "Attendance marked successfully"]_vars

\* An employee with attendance was deleted on the Employees page: the rows of
\* the other employee are still there, the deleted employee's are not.
C24_OthersKeptAfterDelete ==
  /\ toast.message = "Employee deleted successfully"
  /\ employee_seq = 2
  /\ DOMAIN employees = {2}
  /\ attendance # {}
  /\ \A a \in attendance : a.employee_id = 2

\* ---------------------------------------------- calculations side by side
\* Two browser sessions of the admin on the Wages page calculate for employee 1
\* over periods drawn from three days.
InitOverlap ==
  /\ user_roles = { [user_id |-> "alice", role |-> "admin"],
                    [user_id |-> "bob", role |-> "employee"] }
  /\ \E r \in RateInputs :
       employees = (1 :> ([user_id |-> "bob", status |-> "active"] @@ r))
  /\ employee_seq = 1
  /\ attendance =
       {[employee_id |-> 1, date |-> d, status |-> "present",
         overtime_hours |-> 0, advance_taken |-> 0] : d \in {1, 2}}
  /\ wages = Empty
  /\ wage_seq = 0
  /\ now = 1
  /\ session_user = [s \in Sessions |-> "alice"]
  /\ page = [s \in Sessions |-> "wages"]
  /\ pageEmployees = [s \in Sessions |-> loadActiveEmployees("alice")]
  /\ pageWages = [s \in Sessions |-> Empty]
  /\ calculating = [s \in Sessions |-> FALSE]
  /\ calc = [s \in Sessions |-> Idle]
  /\ toast = [session |-> "s1", message |-> ""]
  /\ api = NoRequest
  /\ stats = [s \in Sessions |-> NoStats]
  /\ layout = [s \in Sessions |-> Unmounted]

NextOverlap ==
  \/ \E s \in Sessions, form \in {f \in Forms(CalcDates) : f.employee_id = 1} :
       calculateWageSubmit(s, form, PayMaxWages)
  \/ \E s \in Sessions, fails \in BOOLEAN : calculateWageFetch(s, fails)
  \/ \E s \in Sessions, fails \in BOOLEAN : calculateWageInsert(s, fails)

SpecOverlap == InitOverlap /\ [][NextOverlap]_vars

Overlapping(a, b) ==
  /\ a.employee_id = b.employee_id
  /\ a.period_start <= b.period_end
  /\ b.period_start <= a.period_end

\* C25: a calculation whose insert is answered by the database (no transport
\* failure) is stored as one new wage row for its employee and period and is
\* reported as a success, whatever rows the table already holds for the same
\* employee and an overlapping or identical period, and whatever the other
\* session's calculation is doing; the rows already stored stay as they are.
C25_OverlappingCalculationsBothStored ==
  [][\A s \in Sessions :
       (calc[s].pc = "insert" /\ calc'[s].pc = "idle" /\ toast'.message # "network")
         => /\ toast' = [session |-> s, message |-> "Wage calculated successfully"]
            /\ DOMAIN wages' = DOMAIN wages \cup {wage_seq + 1}
            /\ wage_seq + 1 \notin DOMAIN wages
            /\ \A i \in DOMAIN wages : wages'[i] = wages[i]
            /\ wages'[wage_seq + 1].employee_id = calc[s].form.employee_id
            /\ wages'[wage_seq + 1].period_start = calc[s].form.period_start
            /\ wages'[wage_seq + 1].period_end = calc[s].form.period_end]_vars

\* Two calculations for the same employee were in flight together, over
\* periods that overlap without being the same, and both rows are stored.
C25_TwoOverlappingRowsStored ==
  /\ DOMAIN wages = {1, 2}
  /\ Overlapping(wages[1], wages[2])
  /\ wages[1].period_start < wages[1].period_end
  /\ wages[2].period_start <= wages[2].period_end
  /\ wages[1].period_start # wages[2].period_start
  /\ wages[1].created_at = wages[2].created_at
  /\ \A s \in Sessions : calc[s] = Idle /\ ~calculating[s]

\* ------------------------------------------------------- negative totals
\* C26: a calculation whose advances exceed base wage plus overtime is stored
\* and reported as a success, and the row's total_wage is the computed negative
\* total (rounded into the DECIMAL(10,2) column), not zero: it is below zero
\* whenever the computed total is at least half a cent below zero.
C26_NegativeTotalStored ==
  [][\A s \in Sessions :
       (/\ calc[s].pc = "insert"
        /\ calc'[s].pc = "idle"
        /\ toast'.message # "network"
        /\ calc[s].row.advance_deductions
             > calc[s].row.base_wage + calc[s].row.overtime_amount)
         => /\ toast' = [session |-> s, message |-> "Wage calculated successfully"]
            /\ wage_seq' = wage_seq + 1
            /\ calc[s].row.total_wage < 0
            /\ wages'[wage_seq'].total_wage = RoundDecimal2(calc[s].row.total_wage)
            /\ wages'[wage_seq'].total_wage <= 0
            /\ calc[s].row.total_wage <= -50 => wages'[wage_seq'].total_wage < 0]_vars

\* A wage row with a total below zero is stored: the advances of the period
\* are larger than what was earned in it.
C26_NegativeRowStored ==
  /\ toast.message = "Wage calculated successfully"
  /\ \E i \in DOMAIN wages :
       /\ wages[i].total_wage < 0
       /\ wages[i].advance_deductions > wages[i].base_wage + wages[i].overtime_amount

\* --------------------------------------------------- referential integrity
\* One admin session marks attendance and calculates wages from the lists its
\* pages loaded, while another creates, edits and deletes employees.
NextIntegrity ==
  \/ \E pg \in {"wages", "attendance"} : Navigate("s1", pg)
  \/ \E e \in 1..MaxEmployees, d \in Dates, input \in AttendanceInputs :
       AttendanceHandleSubmit("s1", e, d, input, FALSE)
  \/ \E form \in Forms(Dates) : calculateWageSubmit("s1", form, OfficeMaxWages)
  \/ calculateWageFetch("s1", FALSE)
  \/ calculateWageInsert("s1", FALSE)
  \/ \E e \in 0..MaxEmployees, r \in RateInputs :
       EmployeesHandleSubmit("s2", e, r, FALSE)
  \/ \E e \in 1..MaxEmployees : handleDelete("s2", e, FALSE)

SpecIntegrity == InitOffice /\ [][NextIntegrity]_vars

\* C27: in every state each attendance row and each wage row references an
\* employee that exists (so the step that deletes an employee takes all its
\* attendance and wage rows with it, and an insert for an employee deleted
\* after the page loaded stores nothing).
C27_ReferentialIntegrity ==
  /\ \A a \in attendance : a.employee_id \in DOMAIN employees
  /\ \A i \in DOMAIN wages : wages[i].employee_id \in DOMAIN employees

\* Employee 1 had a wage row and was deleted: the row went with it.  The
\* Attendance page still listed the employee, and the attendance marked for it
\* afterwards was refused by the foreign key and left no row.
C27_StaleInsertRefused ==
  /\ toast = [session |-> "s1", message |-> "Error marking attendance"]
  /\ page["s1"] = "attendance"
  /\ 1 \in DOMAIN pageEmployees["s1"]
  /\ 1 \notin DOMAIN employees
  /\ wage_seq >= 1
  /\ wages = Empty
  /\ attendance = {}

\* ------------------------------------------------------------------ Layout
\* The Layout component of a session: `user` and `isAdmin` are its two pieces
\* of state, `getSession` tells that the effect's getSession() has not been
\* answered yet, `checks` holds the user ids whose checkUserRole call is
\* awaiting its answer.  The pages' specifications leave the Layout unmounted.
navItems ==
  { [path |-> "/", adminOnly |-> FALSE],
    [path |-> "/employees", adminOnly |-> TRUE],
    [path |-> "/attendance", adminOnly |-> TRUE],
    [path |-> "/wages", adminOnly |-> FALSE],
    [path |-> "/reports", adminOnly |-> FALSE] }

\* if (item.adminOnly && !isAdmin) return null;
ShownNavItems(s) ==
  {item \in navItems : layout[s].mounted /\ ~(item.adminOnly /\ ~layout[s].isAdmin)}

\* A page under Layout is rendered: fresh state, the effect subscribes to the
\* auth events and asks for the session.
LayoutMount(s) ==
  /\ ~layout[s].mounted
  /\ session_user[s] # NoUser
  /\ layout' = [layout EXCEPT ![s] =
       [mounted |-> TRUE, getSession |-> TRUE, user |-> NoUser, isAdmin |-> FALSE,
        checks |-> {}]]
  /\ UNCHANGED <<db, api, stats, now, session_user, ui>>

\* getSession() is answered: with a session, setUser and checkUserRole are
\* called; without one, the app navigates to /auth and the Layout is gone.
LayoutGetSession(s) ==
  /\ layout[s].mounted
  /\ layout[s].getSession
  /\ layout' = [layout EXCEPT ![s] =
       IF session_user[s] # NoUser
       THEN [@ EXCEPT !.getSession = FALSE, !.user = session_user[s],
                      !.checks = @ \cup {session_user[s]}]
       ELSE Unmounted]
  /\ UNCHANGED <<db, api, stats, now, session_user, ui>>

\* The auth client reports a session change to the mounted Layout: the session
\* now belongs to `u` (a sign-in, possibly of another user, or a refresh of the
\* same one), or is over (u = NoUser).
onAuthStateChange(s, u) ==
  /\ layout[s].mounted
  /\ session_user[s] # NoUser
  /\ calc[s].pc = "idle"
  /\ session_user' = [session_user EXCEPT ![s] = u]
  /\ IF u # NoUser
     THEN /\ layout' = [layout EXCEPT ![s] =
                 [@ EXCEPT !.user = u, !.checks = @ \cup {u}]]
          /\ UNCHANGED ui
     ELSE /\ layout' = [layout EXCEPT ![s] = Unmounted]
          /\ page' = [page EXCEPT ![s] = "none"]
          /\ pageEmployees' = [pageEmployees EXCEPT ![s] = Empty]
          /\ pageWages' = [pageWages EXCEPT ![s] = Empty]
          /\ calculating' = [calculating EXCEPT ![s] = FALSE]
          /\ UNCHANGED <<calc, toast>>
  /\ UNCHANGED <<db, api, stats, now>>

\* checkUserRole(userId) is answered (the request carries the token of the
\* session it was called for): if (!error && data) setIsAdmin(true).
checkUserRole(s, userId, fails) ==
  /\ layout[s].mounted
  /\ userId \in layout[s].checks
  /\ LET data == {r \in SelectUserRoles(userId) :
                    r.user_id = userId /\ r.role = "admin"}
     IN layout' = [layout EXCEPT ![s] =
          [@ EXCEPT !.checks = @ \ {userId},
                    !.isAdmin = IF ~fails /\ data # {} THEN TRUE ELSE @]]
  /\ UNCHANGED <<db, api, stats, now, session_user, ui>>

NextLayout ==
  \/ \E s \in Sessions, u \in Users : SignIn(s, u)
  \/ \E s \in Sessions : LayoutMount(s)
  \/ \E s \in Sessions : LayoutGetSession(s)
  \/ \E s \in Sessions, u \in Users \cup {NoUser} : onAuthStateChange(s, u)
  \/ \E s \in Sessions, u \in Users, fails \in BOOLEAN : checkUserRole(s, u, fails)
  \/ \E s \in Sessions : handleSignOut(s)

SpecLayout == Init /\ [][NextLayout]_vars

\* C28: in a mounted Layout with no getSession and no role check pending,
\* isAdmin is true, and an admin-only navigation entry is shown, only if the
\* user the session belongs to holds the admin role.
C28_IsAdminOnlyForAdmin ==
  \A s \in Sessions :
    (layout[s].mounted /\ ~layout[s].getSession /\ layout[s].checks = {})
      => /\ layout[s].isAdmin => has_role(session_user[s], "admin")
         /\ (\E item \in ShownNavItems(s) : item.adminOnly)
              => has_role(session_user[s], "admin")

\* ------------------------------------------------------ the calculating flag
\* The calculation with its awaits resolving: a request that was sent is
\* answered in the end, by the server or by an error of the transport.
SpecCalcLive ==
  /\ InitCalc
  /\ [][NextCalc]_vars
  /\ WF_vars(\E fails \in BOOLEAN : calculateWageFetch("s1", fails))
  /\ WF_vars(\E fails \in BOOLEAN : calculateWageInsert("s1", fails))

\* C29: the calculating flag is up only while a calculateWage call is running
\* (never once the call has finished), and every time it is up it comes down
\* again, whichever way the call ends.
C29_CalculatingComesDown ==
  /\ [](\A s \in Sessions : calc[s].pc = "idle" => ~calculating[s])
  /\ \A s \in Sessions : calculating[s] ~> ~calculating[s]

\* A calculation ended with a thrown error, with no wage row stored, and the
\* flag is down.
C29_FlagDownAfterError ==
  /\ toast = [session |-> "s1", message |-> "network"]
  /\ calc["s1"] = Idle
  /\ ~calculating["s1"]
  /\ wage_seq = 0

\* --------------------------------------------------------------- Dashboard
\* The clock counts instants from 1; a day has TicksPerDay of them and a month
\* DaysPerMonth days, so that instant 1 is the first instant of the 1st day of
\* the first month.
TicksPerDay == 2
DaysPerMonth == 2
DashMaxClock == 6

TicksPerMonth == TicksPerDay * DaysPerMonth
TimeOfDay(t) == (t - 1) % TicksPerDay
Today(t) == (t - 1) \div TicksPerDay + 1
FirstInstantOfMonth(t) == t - ((t - 1) % TicksPerMonth)

\* const startOfMonth = new Date(); startOfMonth.setDate(1): the day of the
\* month becomes 1, the time of day stays the present one.
startOfMonth(t) == FirstInstantOfMonth(t) + TimeOfDay(t)

\* Time passes, up to `limit`.
Clock(limit) ==
  /\ now < limit
  /\ now' = now + 1
  /\ UNCHANGED <<db, api, stats, layout, session_user, ui>>

\* from("wages").select("total_wage").eq("paid", true).gte("paid_at",
\* startOfMonth.toISOString()) as `uid`: the rows in any order.
DashboardPaidQuery(uid, t) ==
  Orders({w \in SelectWages(uid) : w.paid /\ w.paid_at # NoTime /\ w.paid_at >= startOfMonth(t)})

\* The Dashboard mounts and its loadStats runs.  A query that fails hands back
\* null, which counts as 0.
loadStats(s, fails) ==
  /\ session_user[s] # NoUser
  /\ calc[s] = Idle
  /\ page' = [page EXCEPT ![s] = "dashboard"]
  /\ pageEmployees' = [pageEmployees EXCEPT ![s] = Empty]
  /\ pageWages' = [pageWages EXCEPT ![s] = Empty]
  /\ calculating' = [calculating EXCEPT ![s] = FALSE]
  /\ LET uid == session_user[s]
     IN IF fails
        THEN stats' = [stats EXCEPT ![s] =
               [totalEmployees |-> 0, todayAttendance |-> 0, pendingWages |-> 0,
                totalPaidThisMonth |-> Zero]]
        ELSE \E paidData \in DashboardPaidQuery(uid, now) :
               stats' = [stats EXCEPT ![s] =
                 [totalEmployees |->
                    Cardinality({e \in SelectEmployees(uid) : e.status = "active"}),
                  todayAttendance |->
                    Cardinality({a \in SelectAttendance(uid) :
                                   a.date = Today(now) /\ a.status = "present"}),
                  pendingWages |-> Cardinality({w \in SelectWages(uid) : ~w.paid}),
                  totalPaidThisMonth |-> reduce(paidData, Zero)]]
  /\ UNCHANGED <<db, api, layout, now, session_user, calc, toast>>

\* Two wage rows awaiting payment; one admin session on the Wages page pays
\* them as time passes, another opens the Dashboard.
InitDash ==
  /\ user_roles = { [user_id |-> "alice", role |-> "admin"],
                    [user_id |-> "bob", role |-> "employee"] }
  /\ employees = (1 :> [user_id |-> NoUser, status |-> "active",
                        daily_wage |-> 10, overtime_rate |-> 0, half_day_rate |-> 10])
  /\ employee_seq = 1
  /\ attendance = {}
  /\ \E totals \in [1..2 -> TotalWageInputs] :
       wages = [i \in 1..2 |->
         NewWageRow([employee_id |-> 1, period_start |-> 1, period_end |-> 1,
                     calculation_type |-> "weekly", base_wage |-> Num(totals[i]),
                     overtime_amount |-> 0, advance_deductions |-> 0,
                     total_wage |-> Num(totals[i])], 1)]
  /\ wage_seq = 2
  /\ now = 1
  /\ session_user = [s \in Sessions |-> "alice"]
  /\ page = [s \in Sessions |-> IF s = "s1" THEN "wages" ELSE "none"]
  /\ pageEmployees = [s \in Sessions |->
       IF s = "s1" THEN loadActiveEmployees("alice") ELSE Empty]
  /\ pageWages = [s \in Sessions |-> IF s = "s1" THEN loadWages("alice") ELSE Empty]
  /\ calculating = [s \in Sessions |-> FALSE]
  /\ calc = [s \in Sessions |-> Idle]
  /\ toast = [session |-> "s1", message |-> ""]
  /\ api = NoRequest
  /\ stats = [s \in Sessions |-> NoStats]
  /\ layout = [s \in Sessions |-> Unmounted]

NextDash ==
  \/ Clock(DashMaxClock)
  \/ \E id \in 1..2 : markAsPaid("s1", id, FALSE)
  \/ \E fails \in BOOLEAN : loadStats("s2", fails)

SpecDash == InitDash /\ [][NextDash]_vars

\* The sum, in hundredths, of total_wage over the paid wage rows whose paid_at
\* lies in the calendar month of instant t, from its first instant on.
PaidInMonthOf(t) ==
  LET rows == {i \in DOMAIN wages :
                 /\ wages[i].paid
                 /\ wages[i].paid_at >= FirstInstantOfMonth(t)
                 /\ wages[i].paid_at < FirstInstantOfMonth(t) + TicksPerMonth}
  IN SumOf([i \in rows |-> wages[i].total_wage], rows)

\* C30: a Dashboard load that is answered sets "Paid This Month" to the sum of
\* total_wage over the paid wage rows whose paid_at falls in the current
\* calendar month, from the first instant of its 1st day, at whatever time of
\* day the load runs.
C30_PaidThisMonthWholeMonth ==
  [][loadStats("s2", FALSE)
       => stats'["s2"].totalPaidThisMonth.v = PaidInMonthOf(now)]_vars
====
